---- MODULE Spec2Model ----
(***************************************************************************)
(* Model of streamlit_app.py: the HMAC request signer (canonical encoding, *)
(* canonical request, string-to-sign, signature), the send-request handler *)
(* that uses it, and the paginated result table kept in the session state. *)
(*                                                                         *)
(* A Python str is modelled as a sequence of one-character strings, so     *)
(* that percent-encoding, joining and slicing are computed character by    *)
(* character.  SHA-256 and HMAC-SHA1 are modelled symbolically: a digest   *)
(* is the bracketed term of its input (two digests are equal exactly when  *)
(* their inputs are), which is the collision-free reading of the hashes.   *)
(***************************************************************************)
EXTENDS Integers, Sequences, FiniteSets, TLC

VARIABLES
    page_data,      \* st.session_state['page_data']: None or <<rows>>
    page_num,       \* st.session_state['page_num']
    selected,       \* whether the column multiselect holds any column
    shown,          \* what the last script run rendered: None or <<record>>
    request,        \* the last outbound GET: None or <<record>>
    signed,         \* arguments, clock reading and result of the last signer call
    earlier,        \* history: the signer call before the last one
    pc,             \* concurrent signer calls: position of each call
    args,           \* concurrent signer calls: arguments of each call
    frame,          \* concurrent signer calls: local variables of each call
    result,         \* concurrent signer calls: value returned by each call
    now,            \* concurrent signer calls: index of the wall clock's reading
    call,           \* function under evaluation: its name and arguments
    ret             \* function under evaluation: None or <<value>>

appVars == <<page_data, page_num, selected, shown, request, signed, earlier>>
signerVars == <<pc, args, frame, result, now>>
fnVars == <<call, ret>>
vars == <<page_data, page_num, selected, shown, request, signed, earlier,
          pc, args, frame, result, now, call, ret>>

None == <<>>
Some(v) == <<v>>

----------------------------------------------------------------------------
(* Characters *)

Lower == {"a", "b", "c", "d", "e", "f", "g", "h", "i", "j", "k", "l", "m",
          "n", "o", "p", "q", "r", "s", "t", "u", "v", "w", "x", "y", "z"}
Upper == {"A", "B", "C", "D", "E", "F", "G", "H", "I", "J", "K", "L", "M",
          "N", "O", "P", "Q", "R", "S", "T", "U", "V", "W", "X", "Y", "Z"}
Digits == <<"0", "1", "2", "3", "4", "5", "6", "7", "8", "9">>
DigitSet == {"0", "1", "2", "3", "4", "5", "6", "7", "8", "9"}

\* urllib.parse.quote never escapes these (its _ALWAYS_SAFE), whatever `safe` is
AlwaysSafe == Lower \cup Upper \cup DigitSet \cup {"_", ".", "-", "~"}

\* the two upper-case hex digits of a character's byte, as quote writes them
HexOf(c) ==
    CASE c = " " -> <<"2", "0">>
      [] c = "%" -> <<"2", "5">>
      [] c = "&" -> <<"2", "6">>
      [] c = "+" -> <<"2", "B">>
      [] c = "," -> <<"2", "C">>
      [] c = "/" -> <<"2", "F">>
      [] c = ":" -> <<"3", "A">>
      [] c = "=" -> <<"3", "D">>
      [] c = "?" -> <<"3", "F">>

\* the concatenation of ss[lo], ..., ss[hi]
RECURSIVE FlattenRange(_, _, _)
FlattenRange(ss, lo, hi) ==
    IF lo > hi THEN <<>>
    ELSE IF lo = hi THEN ss[lo]
    ELSE LET mid == (lo + hi) \div 2
         IN  FlattenRange(ss, lo, mid) \o FlattenRange(ss, mid + 1, hi)

Flatten(ss) == FlattenRange(ss, 1, Len(ss))

\* sep.join(parts)
Join(sep, parts) ==
    Flatten([i \in 1..(2 * Len(parts) - 1) |->
                IF i % 2 = 1 THEN parts[(i + 1) \div 2] ELSE sep])

----------------------------------------------------------------------------
(* Canonical encoder *)

\* urllib.parse.quote(s, safe=''), one character
quote_char(c) == IF c \in AlwaysSafe THEN <<c>> ELSE <<"%">> \o HexOf(c)

\* urllib.parse.quote(s, safe='')
quote(s) == Flatten([i \in 1..Len(s) |-> quote_char(s[i])])

canonical_url_encode(url) == quote(url)

double_encode_once(s) == quote(s)
double_encode(s) == quote(quote(s))

\* the value written as it is, not encoded
encode_pair_raw_value(p) == quote(p[1]) \o <<"=">> \o p[2]

\* f"{quote(k, safe='')}={double_encode(v)}"
encode_pair(p) == quote(p[1]) \o <<"=">> \o double_encode(p[2])

\* as if the pairs went through dict(query_params).items(): a repeated key
\* keeps its first position and its last value
encode_query_dict(query_params) ==
    LET n == Len(query_params)
        first(i) == \A j \in 1..(i - 1) : query_params[j][1] # query_params[i][1]
        last(i) == CHOOSE j \in i..n :
                       /\ query_params[j][1] = query_params[i][1]
                       /\ \A m \in (j + 1)..n : query_params[m][1] # query_params[i][1]
        RECURSIVE items(_)
        items(i) == IF i > n THEN <<>>
                    ELSE IF first(i)
                         THEN <<<<query_params[i][1], query_params[last(i)][2]>>>> \o items(i + 1)
                         ELSE items(i + 1)
        kept == items(1)
    IN  Join(<<"&">>, [i \in 1..Len(kept) |-> encode_pair(kept[i])])

\* '&'.join(... for k, v in query_params)
encode_query(query_params) ==
    Join(<<"&">>, [i \in 1..Len(query_params) |-> encode_pair(query_params[i])])

----------------------------------------------------------------------------
(* Clock and timestamp *)

Digit(d) == Digits[d + 1]

RECURSIVE Pow10(_)
Pow10(k) == IF k = 0 THEN 1 ELSE 10 * Pow10(k - 1)

\* zero-padded decimal of width w, as strftime writes a field
Pad(n, w) == [i \in 1..w |-> Digit((n \div Pow10(w - i)) % 10)]

\* a reading of datetime.now(timezone.utc)
Reading(h, m, s, us) ==
    [year |-> 2024, month |-> 1, day |-> 2, hour |-> h, minute |-> m,
     second |-> s, microsecond |-> us]

\* strftime('%Y-%m-%dT%H:%M:%S')
strftime_seconds(t) ==
    Pad(t.year, 4) \o <<"-">> \o Pad(t.month, 2) \o <<"-">> \o Pad(t.day, 2)
    \o <<"T">> \o Pad(t.hour, 2) \o <<":">> \o Pad(t.minute, 2)
    \o <<":">> \o Pad(t.second, 2)

\* strftime('%Y-%m-%dT%H:%M:%S.%f'): %f is the microsecond, six digits
strftime(t) == strftime_seconds(t) \o <<".">> \o Pad(t.microsecond, 6)

\* the reading rounded to the nearest millisecond, carrying into the seconds
timestamp_rounded(t) ==
    LET ms == (t.microsecond + 500) \div 1000
        carried == IF ms < 1000 THEN t
                   ELSE [t EXCEPT !.second = (t.second + 1) % 60,
                                  !.minute = IF t.second = 59
                                             THEN (t.minute + 1) % 60 ELSE t.minute]
    IN  strftime_seconds(carried) \o <<".">> \o Pad(ms % 1000, 3) \o <<"Z">>

\* strftime(...)[:-3] + 'Z'
timestamp_of(t) ==
    LET s == strftime(t) IN SubSeq(s, 1, Len(s) - 3) \o <<"Z">>

----------------------------------------------------------------------------
(* Hashes, symbolically *)

\* hashlib.sha256(s.encode()).hexdigest()
sha256_hexdigest(s) == <<"sha256(">> \o s \o <<")">>

\* hmac.new(key.encode(), msg.encode(), hashlib.sha1).hexdigest()
hmac_sha1_hexdigest(key, msg) ==
    <<"hmac-sha1(">> \o key \o <<";">> \o msg \o <<")">>

----------------------------------------------------------------------------
(* Signer *)

\* request_body = ''; hashed_body = sha256(request_body)
hashed_body_of_get == sha256_hexdigest(<<>>)

canonical_request_swapped(method, canonical_uri, encoded_params, hashed_body) ==
    method \o <<"&">> \o encoded_params \o <<"&">> \o canonical_uri
    \o <<"&">> \o hashed_body

\* f"{method}&{canonical_uri}&{encoded_params}&{hashed_body}"
canonical_request_of(method, canonical_uri, encoded_params, hashed_body) ==
    method \o <<"&">> \o canonical_uri \o <<"&">> \o encoded_params
    \o <<"&">> \o hashed_body

\* f"HMAC-SHA1&{timestamp}&{access_key}&{hashed_canonical_request}"
string_to_sign_of(timestamp, access_key, hashed_canonical_request) ==
    <<"H", "M", "A", "C", "-", "S", "H", "A", "1", "&">> \o timestamp
    \o <<"&">> \o access_key \o <<"&">> \o hashed_canonical_request

\* a signer whose encoded parameters accumulate from one call to the next (a
\* list kept at module level instead of a local)
generate_signature_accumulating(access_key, secret_key, method, uri, query_params, t) ==
    LET timestamp == timestamp_of(t)
        kept == IF signed = None THEN <<>> ELSE signed[1].query_params
        encoded_params == encode_query(kept \o query_params)
        canonical_request ==
            canonical_request_of(method, canonical_url_encode(uri), encoded_params,
                                 hashed_body_of_get)
        string_to_sign ==
            string_to_sign_of(timestamp, access_key, sha256_hexdigest(canonical_request))
    IN  <<timestamp, hmac_sha1_hexdigest(secret_key, string_to_sign)>>

\* generate_signature, with the clock reading t it takes made explicit; the
\* value is the pair (timestamp, signature) it returns
generate_signature(access_key, secret_key, method, uri, query_params, t) ==
    LET timestamp == timestamp_of(t)
        encoded_params == encode_query(query_params)
        canonical_uri == canonical_url_encode(uri)
        hashed_body == hashed_body_of_get
        canonical_request ==
            canonical_request_of(method, canonical_uri, encoded_params, hashed_body)
        hashed_canonical_request == sha256_hexdigest(canonical_request)
        string_to_sign ==
            string_to_sign_of(timestamp, access_key, hashed_canonical_request)
        signature == hmac_sha1_hexdigest(secret_key, string_to_sign)
    IN  <<timestamp, signature>>

----------------------------------------------------------------------------
(* Pagination *)

page_size == 20
max_pages_display == 5

Max(a, b) == IF a >= b THEN a ELSE b
Min(a, b) == IF a <= b THEN a ELSE b

\* data[start:stop] for a sequence, with Python's handling of negative and
\* out-of-range indices
Slice(data, start, stop) ==
    LET n == Len(data)
        norm(i) == IF i < 0 THEN Max(n + i, 0) ELSE Min(i, n)
        lo == norm(start)
        hi == norm(stop)
    IN  IF lo >= hi THEN <<>> ELSE SubSeq(data, lo + 1, hi)

paginate_data_from_zero(data, size, num) ==
    Slice(data, size * num, size * num + size)

\* paginate_data; page_size is an integer at every call (line 85), so the
\* `page_size is None` return is not taken
paginate_data(data, size, num) ==
    LET offset == size * (num - 1)
    IN  Slice(data, offset, offset + size)

\* (len(df) + page_size - 1) // page_size
total_pages_of(df) == (Len(df) + page_size - 1) \div page_size

\* the page buttons' range(start_page, end_page + 1)
page_buttons_of(num, total_pages) ==
    LET start0 == Max(1, num - max_pages_display \div 2)
        end_page == Min(total_pages, start0 + max_pages_display - 1)
        start_page == IF end_page - start0 + 1 < max_pages_display
                      THEN Max(1, end_page - max_pages_display + 1)
                      ELSE start0
    IN  start_page..end_page

\* What one script run renders below the send button (lines 160-223) for a
\* session holding data df and page number num.  The table is drawn only when
\* some column is selected, and a frame without rows has no columns.  With no
\* page button to draw, st.columns(0) raises and the run ends before the Last
\* button is drawn.
Render(df, num, sel) ==
    LET total_pages == total_pages_of(df)
        buttons == page_buttons_of(num, total_pages)
    IN  [page_num |-> num,
         total_pages |-> total_pages,
         table |-> sel /\ Len(df) > 0,
         rows |-> paginate_data(df, page_size, num),
         page_buttons |-> buttons,
         last_button |-> buttons # {}]

RenderSession(data, num, sel) ==
    IF data = None THEN None ELSE Some(Render(data[1], num, sel))

----------------------------------------------------------------------------
(* The application: inputs *)

MaxRows == 45

AccessKeys == {<<"A", "K", "1">>, <<"A", "K", "2">>}
SecretKeys == {<<"S", "K">>}
SiteUids == {<<"b", "3", "5", "a">>}
BaseUrls == {<<"h", "t", "t", "p", "s", ":", "/", "/", "a", "p", "i", ".",
               "d", "i", "n", "e", "t", "i", "m", "e", ".", "c", "o", "m">>}
Dates == {[year |-> 2024, month |-> 1, day |-> 1],
          [year |-> 2024, month |-> 12, day |-> 31]}
AppReadings == {Reading(23, 59, 59, 999999), Reading(0, 0, 0, 1500)}
RowCounts == {0, 1, page_size + 1, MaxRows}
Responses ==
    {[kind |-> k, rows |-> 0] : k \in {"error", "not_json", "no_page_data"}}
    \cup {[kind |-> "page_data", rows |-> n] : n \in RowCounts}

\* f"{date}"
isoformat(d) ==
    Pad(d.year, 4) \o <<"-">> \o Pad(d.month, 2) \o <<"-">> \o Pad(d.day, 2)

method == <<"G", "E", "T">>

\* f"/Site/{site_uid}/Metrics/SpeedOfService"
endpoint_of(site_uid) ==
    <<"/", "S", "i", "t", "e", "/">> \o site_uid
    \o <<"/", "M", "e", "t", "r", "i", "c", "s", "/", "S", "p", "e", "e", "d",
         "O", "f", "S", "e", "r", "v", "i", "c", "e">>

start_time_of(start_date) ==
    isoformat(start_date)
    \o <<"T", "0", "0", ":", "0", "0", ":", "0", "0", "+", "0", "0", ":", "0", "0">>

end_time_of(end_date) ==
    isoformat(end_date)
    \o <<"T", "2", "3", ":", "5", "9", ":", "5", "9", "+", "0", "0", ":", "0", "0">>

\* params = [('endTime', end_time), ('startTime', start_time)]
params_of(start_date, end_date) ==
    << <<(<<"e", "n", "d", "T", "i", "m", "e">>), end_time_of(end_date)>>,
       <<(<<"s", "t", "a", "r", "t", "T", "i", "m", "e">>), start_time_of(start_date)>> >>

AuthorizationPrefix ==
    <<"d", "i", "n", "e", "t", "i", "m", "e", "-", "s", "v", "2", "-", "h", "m",
      "a", "c", "-", "s", "h", "a", "1", " ", "A", "l", "g", "o", "r", "i", "t",
      "h", "m", "=", "S", "H", "A", "2", "5", "6", "&", "C", "r", "e", "d", "e",
      "n", "t", "i", "a", "l", "s", "=">>
SignatureField == <<"&", "S", "i", "g", "n", "a", "t", "u", "r", "e", "=">>

\* the headers dict of the send-request handler
headers_of(access_key, timestamp, signature) ==
    [Authorization |-> AuthorizationPrefix \o access_key \o SignatureField \o signature,
     x_dinetime_timestamp |-> timestamp,
     x_dinetime_signature_version |-> "dinetime-sv2-hmac-sha1",
     Accept |-> "*/*",
     User_Agent |-> "PythonApp"]

Reverse(seq) == [i \in 1..Len(seq) |-> seq[Len(seq) + 1 - i]]

outbound_request_reordered(base_url, endpoint, headers, params) ==
    [url |-> base_url \o endpoint, headers |-> headers, params |-> Reverse(params)]

\* requests.get(f"{base_url}{endpoint}", headers=headers, params=params)
outbound_request(base_url, endpoint, headers, params) ==
    [url |-> base_url \o endpoint, headers |-> headers, params |-> params]

\* session_state['page_data'] after the response is handled (lines 133-157)
page_data_after(resp) ==
    IF resp.kind = "page_data" THEN Some([i \in 1..resp.rows |-> i]) ELSE None

----------------------------------------------------------------------------
(* The application: one action per script run *)

\* the run started by "Generate Signature and Send Request"
SendRequest(access_key, secret_key, site_uid, base_url, start_date, end_date, t, resp) ==
    LET endpoint == endpoint_of(site_uid)
        params == params_of(start_date, end_date)
        data == page_data_after(resp)
    IN  \E sig \in {generate_signature(access_key, secret_key, method, endpoint, params, t)} :
            /\ signed' = Some([access_key |-> access_key, secret_key |-> secret_key,
                               method |-> method, uri |-> endpoint,
                               query_params |-> params, reading |-> t,
                               timestamp |-> sig[1], signature |-> sig[2]])
            /\ request' = Some(outbound_request(base_url, endpoint,
                                   headers_of(access_key, sig[1], sig[2]), params))
            /\ page_data' = data
            /\ shown' = RenderSession(data, page_num, selected)
            /\ UNCHANGED <<page_num, selected>>

\* the run started by the First button
ClickFirst ==
    /\ page_data # None
    /\ shown # None
    /\ shown' = RenderSession(page_data, page_num, selected)
    /\ page_num' = 1
    /\ UNCHANGED <<page_data, selected, request, signed>>

\* the run started by the page button labelled p: the button was drawn by the
\* last run and is drawn again by this one
ClickPage(p) ==
    /\ page_data # None
    /\ shown # None
    /\ p \in shown[1].page_buttons
    /\ p \in page_buttons_of(page_num, total_pages_of(page_data[1]))
    /\ shown' = RenderSession(page_data, page_num, selected)
    /\ page_num' = p
    /\ UNCHANGED <<page_data, selected, request, signed>>

\* the run started by the Last button
ClickLast ==
    /\ page_data # None
    /\ shown # None
    /\ shown[1].last_button
    /\ Render(page_data[1], page_num, selected).last_button
    /\ shown' = RenderSession(page_data, page_num, selected)
    /\ page_num' = total_pages_of(page_data[1])
    /\ UNCHANGED <<page_data, selected, request, signed>>

\* the run started by a change of the column multiselect
SelectColumns(sel) ==
    /\ page_data # None
    /\ sel # selected
    /\ selected' = sel
    /\ shown' = RenderSession(page_data, page_num, sel)
    /\ UNCHANGED <<page_data, page_num, request, signed>>

IdleSigner ==
    /\ pc = <<>> /\ args = <<>> /\ frame = <<>> /\ result = <<>> /\ now = 0
IdleFn == call = None /\ ret = None

\* the session as lines 111-117 leave it on the first run
InitApp ==
    /\ page_data = None
    /\ page_num = 1
    /\ selected = TRUE
    /\ shown = None
    /\ request = None
    /\ signed = None
    /\ earlier = None

Init == InitApp /\ IdleSigner /\ IdleFn

Next ==
    \/ \E access_key \in AccessKeys, secret_key \in SecretKeys,
          site_uid \in SiteUids, base_url \in BaseUrls,
          start_date \in Dates, end_date \in Dates,
          t \in AppReadings, resp \in Responses :
            /\ SendRequest(access_key, secret_key, site_uid, base_url,
                           start_date, end_date, t, resp)
            /\ UNCHANGED <<earlier, signerVars, fnVars>>
    \/ ClickFirst /\ UNCHANGED <<earlier, signerVars, fnVars>>
    \/ \E p \in 1..(MaxRows + page_size) :
           ClickPage(p) /\ UNCHANGED <<earlier, signerVars, fnVars>>
    \/ ClickLast /\ UNCHANGED <<earlier, signerVars, fnVars>>
    \/ \E sel \in BOOLEAN :
           SelectColumns(sel) /\ UNCHANGED <<earlier, signerVars, fnVars>>

Spec == Init /\ [][Next]_vars

\* C1: every send-request click sends exactly what its one generate_signature
\* call signed: the request's params are the ordered pairs given to the signer,
\* its x-dinetime-timestamp header is the timestamp inside the string-to-sign,
\* and its Authorization header carries the same access key and the signature
\* the call returned (so a verifier recomputing the signature from the request
\* as received obtains the signature in the header).
C1_RequestCarriesWhatWasSigned ==
    request # None =>
        LET r == request[1]
            s == signed[1]
        IN  /\ signed # None
            /\ <<s.timestamp, s.signature>> =
                   generate_signature(s.access_key, s.secret_key, s.method, s.uri,
                                      s.query_params, s.reading)
            /\ r.params = s.query_params
            /\ r.headers.x_dinetime_timestamp = s.timestamp
            /\ r.headers.Authorization =
                   AuthorizationPrefix \o s.access_key \o SignatureField \o s.signature
            /\ s.signature =
                   hmac_sha1_hexdigest(s.secret_key,
                       string_to_sign_of(r.headers.x_dinetime_timestamp, s.access_key,
                           sha256_hexdigest(
                               canonical_request_of(s.method, quote(s.uri),
                                   encode_query(r.params), sha256_hexdigest(<<>>)))))

\* a request was sent for a range whose two dates differ, signed at the last
\* microsecond of a second, after an earlier page click
C1_Witness ==
    /\ request # None
    /\ request[1].params[1][2] # end_time_of([year |-> 2024, month |-> 1, day |-> 1])
    /\ request[1].params[2][2] = start_time_of([year |-> 2024, month |-> 1, day |-> 1])
    /\ signed[1].reading.microsecond = 999999
    /\ page_num = 2

\* C9: whenever a result table is displayed, the page number it is drawn for
\* satisfies 1 <= page_num <= total_pages.
C9_DisplayedPageInRange ==
    (shown # None /\ shown[1].table) =>
        /\ 1 <= shown[1].page_num
        /\ shown[1].page_num <= shown[1].total_pages

----------------------------------------------------------------------------
(* Repeated signing: the application with the previous signer call kept *)

RepeatResponses ==
    {[kind |-> "no_page_data", rows |-> 0], [kind |-> "page_data", rows |-> 1],
     [kind |-> "page_data", rows |-> MaxRows]}

NextRepeat ==
    \/ \E access_key \in AccessKeys, secret_key \in SecretKeys,
          site_uid \in SiteUids, base_url \in BaseUrls,
          date \in {[year |-> 2024, month |-> 1, day |-> 1]},
          t \in AppReadings, resp \in RepeatResponses :
            /\ SendRequest(access_key, secret_key, site_uid, base_url, date, date, t, resp)
            /\ earlier' = signed
            /\ UNCHANGED <<signerVars, fnVars>>
    \/ ClickFirst /\ UNCHANGED <<earlier, signerVars, fnVars>>
    \/ \E p \in 1..(MaxRows + page_size) :
           ClickPage(p) /\ UNCHANGED <<earlier, signerVars, fnVars>>
    \/ ClickLast /\ UNCHANGED <<earlier, signerVars, fnVars>>
    \/ \E sel \in BOOLEAN :
           SelectColumns(sel) /\ UNCHANGED <<earlier, signerVars, fnVars>>

SpecRepeat == Init /\ [][NextRepeat]_vars

SameSignerInput(a, b) ==
    /\ a.access_key = b.access_key
    /\ a.secret_key = b.secret_key
    /\ a.method = b.method
    /\ a.uri = b.uri
    /\ a.query_params = b.query_params
    /\ a.reading = b.reading

----------------------------------------------------------------------------
(* Concurrent signer calls: generate_signature statement by statement *)

MaxTicks == 1
NumCalls == 2

Calls == 1..NumCalls

\* the wall clock's successive readings
ClockAt(k) == Reading(23, 59, 58 + k \div 2, IF k % 2 = 0 THEN 999499 ELSE 999999)

SignerArgs ==
    {[access_key |-> <<"A", "K", "1">>, secret_key |-> <<"S", "K">>,
      method |-> <<"G", "E", "T">>, uri |-> <<"/", "S", "/", "x">>,
      query_params |-> << <<(<<"e">>), <<"1", ":", "+">> >>, <<(<<"s">>), <<"0">> >> >>],
     [access_key |-> <<"A", "K", "1">>, secret_key |-> <<"S", "K">>,
      method |-> <<"G", "E", "T">>, uri |-> <<"/", "S", "/", "x">>,
      query_params |-> << <<(<<"s">>), <<"0">> >>, <<(<<"e">>), <<"1", ":", "+">> >> >>],
     [access_key |-> <<"A", "K", "2">>, secret_key |-> <<"S", "2">>,
      method |-> <<"P", "U", "T">>, uri |-> <<"/", "a", " ", "b">>,
      query_params |-> <<>>]}

NoLocals ==
    [reading |-> None, timestamp |-> <<>>, encoded_params |-> <<>>,
     canonical_uri |-> <<>>, hashed_body |-> <<>>, canonical_request |-> <<>>,
     hashed_canonical_request |-> <<>>, string_to_sign |-> <<>>, signature |-> <<>>]

InitSigner ==
    /\ pc = [c \in Calls |-> "idle"]
    /\ args = [c \in Calls |-> None]
    /\ frame = [c \in Calls |-> NoLocals]
    /\ result = [c \in Calls |-> None]
    /\ now = 0

\* the wall clock moves on
Tick ==
    /\ now < MaxTicks
    /\ now' = now + 1
    /\ UNCHANGED <<pc, args, frame, result>>

\* generate_signature(...) is entered with arguments a
Enter(c, a) ==
    /\ pc[c] = "idle"
    /\ pc' = [pc EXCEPT ![c] = "timestamp"]
    /\ args' = [args EXCEPT ![c] = Some(a)]
    /\ frame' = [frame EXCEPT ![c] = NoLocals]
    /\ result' = [result EXCEPT ![c] = None]
    /\ UNCHANGED now

\* Step 1: timestamp = datetime.now(timezone.utc).strftime(...)[:-3] + 'Z'
StepTimestamp(c) ==
    /\ pc[c] = "timestamp"
    /\ frame' = [frame EXCEPT ![c].reading = Some(ClockAt(now)),
                              ![c].timestamp = timestamp_of(ClockAt(now))]
    /\ pc' = [pc EXCEPT ![c] = "encode"]
    /\ UNCHANGED <<args, result, now>>

\* the encoded parameters kept in one variable shared by all calls
StepEncodeShared(c) ==
    /\ pc[c] = "encode"
    /\ frame' = [d \in Calls |->
                    [frame[d] EXCEPT !.encoded_params =
                                         encode_query(args[c][1].query_params)]]
    /\ pc' = [pc EXCEPT ![c] = "canonicalize"]
    /\ UNCHANGED <<args, result, now>>

\* Step 2: encoded_params = '&'.join(...)
StepEncode(c) ==
    /\ pc[c] = "encode"
    /\ frame' = [frame EXCEPT ![c].encoded_params =
                                  encode_query(args[c][1].query_params)]
    /\ pc' = [pc EXCEPT ![c] = "canonicalize"]
    /\ UNCHANGED <<args, result, now>>

\* Step 3: canonical_uri = canonical_url_encode(uri)
StepCanonicalize(c) ==
    /\ pc[c] = "canonicalize"
    /\ frame' = [frame EXCEPT ![c].canonical_uri = canonical_url_encode(args[c][1].uri)]
    /\ pc' = [pc EXCEPT ![c] = "canonical_request"]
    /\ UNCHANGED <<args, result, now>>

\* Step 4: hashed_body and canonical_request
StepCanonicalRequest(c) ==
    /\ pc[c] = "canonical_request"
    /\ frame' = [frame EXCEPT
                    ![c].hashed_body = hashed_body_of_get,
                    ![c].canonical_request =
                        canonical_request_of(args[c][1].method, frame[c].canonical_uri,
                                             frame[c].encoded_params, hashed_body_of_get)]
    /\ pc' = [pc EXCEPT ![c] = "hash"]
    /\ UNCHANGED <<args, result, now>>

\* Step 5: hashed_canonical_request
StepHash(c) ==
    /\ pc[c] = "hash"
    /\ frame' = [frame EXCEPT ![c].hashed_canonical_request =
                                  sha256_hexdigest(frame[c].canonical_request)]
    /\ pc' = [pc EXCEPT ![c] = "string_to_sign"]
    /\ UNCHANGED <<args, result, now>>

\* Step 6: string_to_sign
StepStringToSign(c) ==
    /\ pc[c] = "string_to_sign"
    /\ frame' = [frame EXCEPT ![c].string_to_sign =
                                  string_to_sign_of(frame[c].timestamp,
                                                    args[c][1].access_key,
                                                    frame[c].hashed_canonical_request)]
    /\ pc' = [pc EXCEPT ![c] = "hmac"]
    /\ UNCHANGED <<args, result, now>>

\* Step 7: signature = hmac.new(...).hexdigest()
StepSign(c) ==
    /\ pc[c] = "hmac"
    /\ frame' = [frame EXCEPT ![c].signature =
                                  hmac_sha1_hexdigest(args[c][1].secret_key,
                                                      frame[c].string_to_sign)]
    /\ pc' = [pc EXCEPT ![c] = "return"]
    /\ UNCHANGED <<args, result, now>>

\* return timestamp, signature
Return(c) ==
    /\ pc[c] = "return"
    /\ result' = [result EXCEPT ![c] = Some(<<frame[c].timestamp, frame[c].signature>>)]
    /\ pc' = [pc EXCEPT ![c] = "done"]
    /\ UNCHANGED <<args, frame, now>>

\* the caller has taken the result; the call slot is free again
Leave(c) ==
    /\ pc[c] = "done"
    /\ pc' = [pc EXCEPT ![c] = "idle"]
    /\ UNCHANGED <<args, frame, result, now>>

NextSigner ==
    \/ Tick /\ UNCHANGED <<appVars, fnVars>>
    \/ \E c \in Calls, a \in SignerArgs : Enter(c, a) /\ UNCHANGED <<appVars, fnVars>>
    \/ \E c \in Calls : StepTimestamp(c) /\ UNCHANGED <<appVars, fnVars>>
    \/ \E c \in Calls : StepEncode(c) /\ UNCHANGED <<appVars, fnVars>>
    \/ \E c \in Calls : StepCanonicalize(c) /\ UNCHANGED <<appVars, fnVars>>
    \/ \E c \in Calls : StepCanonicalRequest(c) /\ UNCHANGED <<appVars, fnVars>>
    \/ \E c \in Calls : StepHash(c) /\ UNCHANGED <<appVars, fnVars>>
    \/ \E c \in Calls : StepStringToSign(c) /\ UNCHANGED <<appVars, fnVars>>
    \/ \E c \in Calls : StepSign(c) /\ UNCHANGED <<appVars, fnVars>>
    \/ \E c \in Calls : Return(c) /\ UNCHANGED <<appVars, fnVars>>
    \/ \E c \in Calls : Leave(c) /\ UNCHANGED <<appVars, fnVars>>

SpecSignerInit == InitApp /\ InitSigner /\ IdleFn

SpecSigner == SpecSignerInit /\ [][NextSigner]_vars

\* C5: the signature returned is
\* HMAC-SHA1(secret_key, "HMAC-SHA1&" + timestamp + "&" + access_key + "&"
\*           + SHA256(canonical_request)),
\* canonical_request being method, canonical URI, encoded parameters and
\* SHA256("") joined by "&" in that order, and the canonical URI has every
\* character outside the unreserved set percent-encoded, "/" as "%2F".
C5_SignatureFormula ==
    \A c \in Calls :
        pc[c] = "done" =>
            LET a == args[c][1]
                timestamp == result[c][1][1]
                canonical_request ==
                    Join(<<"&">>, <<a.method, quote(a.uri),
                                    encode_query(a.query_params), sha256_hexdigest(<<>>)>>)
            IN  /\ result[c][1][2] =
                       hmac_sha1_hexdigest(a.secret_key,
                           Join(<<"&">>, <<(<<"H", "M", "A", "C", "-", "S", "H", "A", "1">>),
                                           timestamp, a.access_key,
                                           sha256_hexdigest(canonical_request)>>))
                /\ \A i \in 1..Len(frame[c].canonical_uri) :
                       frame[c].canonical_uri[i] \in AlwaysSafe \cup {"%"}
                /\ Len(frame[c].canonical_uri) =
                       Len(a.uri) + 2 * Cardinality({i \in 1..Len(a.uri) : a.uri[i] \notin AlwaysSafe})
                /\ canonical_url_encode(<<"/">>) = <<"%", "2", "F">>

\* a call for a URI with slashes and two parameters has returned
C5_Witness ==
    \E c \in Calls :
        /\ pc[c] = "done"
        /\ Len(args[c][1].query_params) = 2
        /\ "/" \in {args[c][1].uri[i] : i \in 1..Len(args[c][1].uri)}

\* C7: signer calls whose steps interleave share no state: each returns the
\* (timestamp, signature) it would return running alone with its arguments
\* and its clock reading, and the session state is left as it was.
C7_CallsIndependent ==
    /\ \A c \in Calls :
           pc[c] = "done" =>
               result[c] = Some(generate_signature(args[c][1].access_key,
                                    args[c][1].secret_key, args[c][1].method,
                                    args[c][1].uri, args[c][1].query_params,
                                    frame[c].reading[1]))
    /\ InitApp

\* two calls with different arguments and different clock readings have both
\* returned, the second having started while the first was in progress
C7_Witness ==
    \E c, d \in Calls :
        /\ pc[c] = "done" /\ pc[d] = "done"
        /\ args[c] # args[d]
        /\ frame[c].reading # frame[d].reading
        /\ result[c] # result[d]

----------------------------------------------------------------------------
(* Helpers of the properties: an independent percent-decoder and a splitter *)

\* the character a pair of hex digits stands for
CharOf(h) ==
    CASE h = <<"2", "0">> -> " "
      [] h = <<"2", "5">> -> "%"
      [] h = <<"2", "6">> -> "&"
      [] h = <<"2", "B">> -> "+"
      [] h = <<"2", "C">> -> ","
      [] h = <<"2", "F">> -> "/"
      [] h = <<"3", "A">> -> ":"
      [] h = <<"3", "D">> -> "="
      [] h = <<"3", "F">> -> "?"

\* one pass of percent-decoding
RECURSIVE Unquote(_)
Unquote(s) ==
    IF s = <<>> THEN <<>>
    ELSE IF s[1] = "%" /\ Len(s) >= 3
         THEN <<CharOf(SubSeq(s, 2, 3))>> \o Unquote(SubSeq(s, 4, Len(s)))
         ELSE <<s[1]>> \o Unquote(Tail(s))

\* s.split(sep) for a one-character separator
RECURSIVE SplitFrom(_, _, _)
SplitFrom(s, sep, start) ==
    LET stops == {i \in start..Len(s) : s[i] = sep}
    IN  IF stops = {} THEN <<SubSeq(s, start, Len(s))>>
        ELSE LET i == CHOOSE j \in stops : \A k \in stops : j <= k
             IN  <<SubSeq(s, start, i - 1)>> \o SplitFrom(s, sep, i + 1)

Split(s, sep) == SplitFrom(s, sep, 1)

Unsafe(s) == Cardinality({i \in 1..Len(s) : s[i] \notin AlwaysSafe})
IsEncoded(s) == \A i \in 1..Len(s) : s[i] \in AlwaysSafe \cup {"%"}

----------------------------------------------------------------------------
(* The canonical encoder on its own *)

MaxParams == 2

EncodeKeys == {<<>>, <<"k">>, <<"+">>, <<"a", "=">>}
EncodeValues ==
    {<<>>, <<"v">>, <<"+">>, <<"%", "2", "B">>, <<"a", "&", "b">>, <<":", " ">>}
EncodePairs == {<<k, v>> : k \in EncodeKeys, v \in EncodeValues}
EncodeLists == UNION {[1..n -> EncodePairs] : n \in 0..MaxParams}
AppParams == {params_of(sd, ed) : sd \in Dates, ed \in Dates}

InitEncode ==
    /\ InitApp /\ IdleSigner
    /\ ret = None
    /\ call \in {[fn |-> "encode_query", arg |-> q] : q \in EncodeLists \cup AppParams}
                \cup {[fn |-> "double_encode", arg |-> v] : v \in EncodeValues}

\* encode_query is applied to the list
ApplyEncodeQuery ==
    /\ call.fn = "encode_query" /\ ret = None
    /\ ret' = Some(encode_query(call.arg))
    /\ UNCHANGED call

\* double_encode is applied to the string
ApplyDoubleEncode ==
    /\ call.fn = "double_encode" /\ ret = None
    /\ ret' = Some(double_encode(call.arg))
    /\ UNCHANGED call

NextEncode ==
    \/ ApplyEncodeQuery /\ UNCHANGED <<appVars, signerVars>>
    \/ ApplyDoubleEncode /\ UNCHANGED <<appVars, signerVars>>

SpecEncode == InitEncode /\ [][NextEncode]_vars

\* the "key=value" segments of an encoded query string
Segments(encoded, n) == IF n = 0 THEN <<>> ELSE Split(encoded, "&")
KeyPart(seg) == Split(seg, "=")[1]
ValuePart(seg) == SubSeq(seg, Len(KeyPart(seg)) + 2, Len(seg))

\* C2: the encoded query string lists the pairs in exactly the input order: it
\* has one segment per input pair, the i-th segment is the i-th pair's, and for
\* the application's params endTime comes before startTime.
C2_OrderPreserved ==
    (ret # None /\ call.fn = "encode_query") =>
        LET q == call.arg
            segs == Segments(ret[1], Len(q))
        IN  /\ Len(q) = 0 => ret[1] = <<>>
            /\ Len(segs) = Len(q)
            /\ \A i \in 1..Len(q) :
                   /\ Unquote(KeyPart(segs[i])) = q[i][1]
                   /\ Unquote(Unquote(ValuePart(segs[i]))) = q[i][2]
            /\ q \in AppParams =>
                   /\ KeyPart(segs[1]) = <<"e", "n", "d", "T", "i", "m", "e">>
                   /\ KeyPart(segs[2]) = <<"s", "t", "a", "r", "t", "T", "i", "m", "e">>

\* a list that repeats a key with two different values, in an order that is
\* not the sorted one, has been encoded
C2_Witness ==
    /\ ret # None
    /\ call.fn = "encode_query"
    /\ Len(call.arg) = 2
    /\ call.arg[1][1] = <<"k">> /\ call.arg[2][1] = <<"k">>
    /\ call.arg[1][2] = <<"v">> /\ call.arg[2][2] = <<"+">>

\* C3: in the encoded query string every key is percent-encoded exactly once
\* and every value exactly twice, nothing but the unreserved characters left
\* as is; double_encode("+") = "%252B" and a "+" in a key gives "%2B".
C3_KeyOnceValueTwice ==
    /\ (ret # None /\ call.fn = "encode_query") =>
           LET q == call.arg
               segs == Segments(ret[1], Len(q))
           IN  \A i \in 1..Len(q) :
                   LET key == KeyPart(segs[i])
                       value == ValuePart(segs[i])
                   IN  /\ IsEncoded(key) /\ IsEncoded(value)
                       /\ Unquote(key) = q[i][1]
                       /\ Len(key) = Len(q[i][1]) + 2 * Unsafe(q[i][1])
                       /\ IsEncoded(Unquote(value))
                       /\ Unquote(Unquote(value)) = q[i][2]
                       /\ Len(value) = Len(q[i][2]) + 4 * Unsafe(q[i][2])
                       /\ q[i][1] = <<"+">> => key = <<"%", "2", "B">>
    /\ (ret # None /\ call.fn = "double_encode") =>
           /\ IsEncoded(ret[1]) /\ IsEncoded(Unquote(ret[1]))
           /\ Unquote(Unquote(ret[1])) = call.arg
           /\ Len(ret[1]) = Len(call.arg) + 4 * Unsafe(call.arg)
           /\ call.arg = <<"+">> => ret[1] = <<"%", "2", "5", "2", "B">>

\* a pair whose key and value are both "+" has been encoded
C3_Witness ==
    /\ ret # None
    /\ call.fn = "encode_query"
    /\ Len(call.arg) >= 1
    /\ call.arg[1] = << <<"+">>, <<"+">> >>
    /\ ret[1] = <<"%", "2", "B", "=", "%", "2", "5", "2", "B">>
                    \o (IF Len(call.arg) = 1 THEN <<>>
                        ELSE SubSeq(ret[1], 10, Len(ret[1])))

----------------------------------------------------------------------------
(* The timestamp on its own *)

MilliSamples == {0, 1, 9, 10, 99, 100, 499, 500, 998, 999}
MicroSamples == {0, 1, 499, 500, 999}
ClockSamples ==
    {Reading(23, m, sec, ms * 1000 + us) :
        m \in {0, 59}, sec \in {0, 59}, ms \in MilliSamples, us \in MicroSamples}

InitClock ==
    /\ InitApp /\ IdleSigner
    /\ ret = None
    /\ call \in {[fn |-> "timestamp", arg |-> t] : t \in ClockSamples}

\* the clock is read and the reading formatted (line 51)
ApplyTimestamp ==
    /\ call.fn = "timestamp" /\ ret = None
    /\ ret' = Some(timestamp_of(call.arg))
    /\ UNCHANGED call

NextClock == ApplyTimestamp /\ UNCHANGED <<appVars, signerVars>>

SpecClock == InitClock /\ [][NextClock]_vars

DigitValue(c) == CHOOSE d \in 0..9 : Digits[d + 1] = c
IsDigit(c) == \E d \in 0..9 : Digits[d + 1] = c

\* C6: the timestamp ends in "." then exactly three digits then "Z"; the three
\* digits are the microsecond divided by 1000 with the remainder dropped, and
\* the part before them is the reading's own second (no carry).
C6_MillisecondsTruncated ==
    ret # None =>
        LET ts == ret[1]
            t == call.arg
            n == Len(ts)
        IN  /\ n = 24
            /\ ts[n] = "Z"
            /\ ts[n - 4] = "."
            /\ \A i \in (n - 3)..(n - 1) : IsDigit(ts[i])
            /\ 100 * DigitValue(ts[n - 3]) + 10 * DigitValue(ts[n - 2])
                   + DigitValue(ts[n - 1]) = t.microsecond \div 1000
            /\ 10 * DigitValue(ts[n - 6]) + DigitValue(ts[n - 5]) = t.second
            /\ 10 * DigitValue(ts[n - 9]) + DigitValue(ts[n - 8]) = t.minute
            /\ SubSeq(ts, 1, n - 5) = strftime_seconds(t)

\* the reading 23:59:59.999999 has been formatted, as ...:59.999Z
C6_Witness ==
    /\ ret # None
    /\ call.arg.microsecond = 999999
    /\ call.arg.second = 59
    /\ call.arg.minute = 59
    /\ SubSeq(ret[1], 18, 24) = <<"5", "9", ".", "9", "9", "9", "Z">>

----------------------------------------------------------------------------
(* paginate_data on its own *)

MaxLen == 7
MaxPageSize == 3
MaxPage == 4

InitPaginate ==
    /\ InitApp /\ IdleSigner
    /\ ret = None
    /\ call \in {[fn |-> "paginate_data", data |-> [i \in 1..n |-> 100 + i],
                  page_size |-> size, page_num |-> num] :
                    n \in 0..MaxLen, size \in 1..MaxPageSize, num \in 1..MaxPage}

\* paginate_data is applied
ApplyPaginate ==
    /\ call.fn = "paginate_data" /\ ret = None
    /\ ret' = Some(paginate_data(call.data, call.page_size, call.page_num))
    /\ UNCHANGED call

NextPaginate == ApplyPaginate /\ UNCHANGED <<appVars, signerVars>>

SpecPaginate == InitPaginate /\ [][NextPaginate]_vars

\* C10: for page_size >= 1 and 1 <= p <= total_pages = ceil(len / page_size),
\* page p is the rows (p-1)*page_size up to but excluding p*page_size: it is
\* non-empty, has at most page_size rows, the pages are disjoint and in order
\* they concatenate to the data; for p > total_pages the page is empty.
C10_PagesPartitionData ==
    ret # None =>
        LET data == call.data
            size == call.page_size
            p == call.page_num
            n == Len(data)
            total == (n + size - 1) \div size
            page == ret[1]
            first == (p - 1) * size
            last == IF p * size <= n THEN p * size ELSE n
            before == Flatten([q \in 1..(p - 1) |-> paginate_data(data, size, q)])
            after == Flatten([j \in 1..(total - p) |-> paginate_data(data, size, p + j)])
        IN  /\ p > total => page = <<>>
            /\ p <= total =>
                   /\ page # <<>>
                   /\ Len(page) <= size
                   /\ Len(page) = last - first
                   /\ \A i \in 1..Len(page) : page[i] = data[first + i]
                   /\ before \o page \o after = data

\* the last, partial page of a sequence of several pages has been cut
C10_Witness ==
    /\ ret # None
    /\ call.page_size = 3
    /\ Len(call.data) = 7
    /\ call.page_num = 3
    /\ ret[1] = <<107>>

----------------------------------------------------------------------------
(* Two signer inputs side by side *)

MaxTamperParams == 2

TamperMethods == {<<"G">>, <<"G", "&", "a">>}
TamperUris == {<<>>, <<"a">>}
TamperSecrets == {<<"S", "1">>, <<"S", "2">>}
TamperPairs ==
    {<< <<>>, <<>> >>, << <<"a">>, <<>> >>, << <<>>, <<"a">> >>,
     << <<"a">>, <<"&", "a", "=">> >>}
TamperLists == UNION {[1..n -> TamperPairs] : n \in 0..MaxTamperParams}
TamperInputs ==
    {[method |-> m, uri |-> u, query_params |-> q, secret_key |-> k] :
        m \in TamperMethods, u \in TamperUris, q \in TamperLists, k \in TamperSecrets}
TamperAccessKey == <<"A", "K">>
TamperReading == Reading(12, 0, 0, 0)

InitTamper ==
    /\ InitApp /\ IdleSigner
    /\ ret = None
    /\ call \in {[fn |-> "generate_signature", a |-> a, b |-> b] :
                    a \in TamperInputs, b \in TamperInputs}

\* both inputs are signed, with the same access key at the same clock reading
SignBoth ==
    /\ call.fn = "generate_signature" /\ ret = None
    /\ ret' = Some(<<generate_signature(TamperAccessKey, call.a.secret_key,
                                        call.a.method, call.a.uri,
                                        call.a.query_params, TamperReading),
                     generate_signature(TamperAccessKey, call.b.secret_key,
                                        call.b.method, call.b.uri,
                                        call.b.query_params, TamperReading)>>)
    /\ UNCHANGED call

NextTamper == SignBoth /\ UNCHANGED <<appVars, signerVars>>

SpecTamper == InitTamper /\ [][NextTamper]_vars

CanonicalRequestOf(in) ==
    canonical_request_of(in.method, canonical_url_encode(in.uri),
                         encode_query(in.query_params), hashed_body_of_get)

\* C8: with the timestamp and access key fixed, two inputs that differ in the
\* method, the uri, a parameter key or value, or the secret key get different
\* signatures; the canonical request is an injective function of (method,
\* uri, ordered params).
C8_TamperSensitive ==
    (ret # None /\ call.a # call.b) =>
        /\ ret[1][1][2] # ret[1][2][2]
        /\ <<call.a.method, call.a.uri, call.a.query_params>>
               # <<call.b.method, call.b.uri, call.b.query_params>>
           => CanonicalRequestOf(call.a) # CanonicalRequestOf(call.b)

\* signed side by side: one pair whose value holds "&" and "=", and the two
\* pairs that value would split into; a method holding "&" and the method and
\* uri it would split into
C8_Witness ==
    /\ ret # None
    /\ \/ /\ call.a.query_params = << << <<"a">>, <<"&", "a", "=">> >> >>
          /\ call.b.query_params = << << <<"a">>, <<>> >>, << <<"a">>, <<>> >> >>
          /\ call.a.method = call.b.method /\ call.a.uri = call.b.uri
          /\ call.a.secret_key = call.b.secret_key
       \/ /\ call.a.method = <<"G", "&", "a">> /\ call.a.uri = <<>>
          /\ call.b.method = <<"G">> /\ call.b.uri = <<"a">>
          /\ call.a.query_params = call.b.query_params
    /\ ret[1][1][2] # ret[1][2][2]

====
